---------------------------- MODULE Spec2Model ----------------------------
(***************************************************************************)
(* Model of AllVersionsExporter.py: the walker that exports every version  *)
(* of every Fusion 360 design of the selected projects in the requested    *)
(* formats, skipping outputs that already exist and counting what was      *)
(* saved, skipped and errored.                                             *)
(*                                                                         *)
(* Strings are sequences of one-character strings, so that the sanitizer   *)
(* and the file-name formatting are computed character by character.       *)
(* A path is a sequence of names relative to the output root ctx.folder.   *)
(***************************************************************************)
EXTENDS Integers, Sequences, FiniteSets, TLC

VARIABLES
    cfg,        \* Ctx: formats, projects, unhide_all, save_sketches, save_all_versions
    tree,       \* which of the Trees the Fusion API serves (see Data)
    dirs,       \* directories that exist under the output root
    files,      \* regular files that exist (exports and DXF files)
    ledgers,    \* path of a metadata file |-> its lines
    openDocs,   \* documents open in the application: <<file, version>> |-> how many
    pc,         \* "idle" | "running" | "returned" | "aborted" (exception left main)
    run,        \* number of calls of main so far
    mainF,      \* frame of main: next project index and counter
    fstack,     \* frames of the nested visit_folder calls, innermost last
    wrap,       \* frame of visit_file_wrapper, or NoFrame
    visit,      \* frame of visit_file, or NoFrame
    hist,       \* observations of the calls made so far (history, not program state)
    faults,     \* number of capability failures injected so far
    pin,        \* inputs of the pure functions (sanitize_filename, Counter)
    pout        \* their last result

walkVars == <<cfg, tree, dirs, files, ledgers, openDocs, pc, run, mainF, fstack,
              wrap, visit, hist, faults>>
pureVars == <<pin, pout>>
vars == <<cfg, tree, dirs, files, ledgers, openDocs, pc, run, mainF, fstack,
          wrap, visit, hist, faults, pin, pout>>

-----------------------------------------------------------------------------
(* Bounds of the model *)

MaxNameLen == 3      \* longest name given to the sanitizer on its own
MaxCount == 1        \* largest field of a Counter given to + and += on their own
MaxRuns == 2         \* calls of main in one behaviour
MaxFaults == 2       \* capability failures in one behaviour
MaxCalls == 4        \* open() and close() calls on a handle taken on its own

-----------------------------------------------------------------------------
(* Small helpers *)

NoFrame == [k |-> "none"]

RECURSIVE SeqToSet(_)
SeqToSet(s) == IF s = <<>> THEN {} ELSE {Head(s)} \cup SeqToSet(Tail(s))

RECURSIVE Pow(_, _)
Pow(b, e) == IF e = 0 THEN 1 ELSE b * Pow(b, e - 1)

-----------------------------------------------------------------------------
(* Counter *)

\* Counter(saved, skipped, errored), defaults 0
Counter(sv, sk, er) == [saved |-> sv, skipped |-> sk, errored |-> er]

Zero == Counter(0, 0, 0)

\* a mutation of __add__: the errored field of the right operand is dropped
CounterAddDropsErrored(a, b) ==
    Counter(a.saved + b.saved, a.skipped + b.skipped, a.errored)

\* Counter.__add__: a new Counter, the pointwise sum
CounterAdd(a, b) ==
    Counter(a.saved + b.saved, a.skipped + b.skipped, a.errored + b.errored)

\* Counter.__iadd__ on the objects i (self) and j (other) of a heap: three
\* assignments in sequence, each reading other after the earlier writes
CounterIAdd(heap, i, j) ==
    LET s1 == [heap EXCEPT ![i].saved = heap[i].saved + heap[j].saved]
        s2 == [s1 EXCEPT ![i].skipped = s1[i].skipped + s1[j].skipped]
    IN  [s2 EXCEPT ![i].errored = s2[i].errored + s2[j].errored]

-----------------------------------------------------------------------------
(* sanitize_filename *)

\* the character class of the regular expression [:\\/*?<>|]
BadChars == {":", "\\", "/", "*", "?", "<", ">", "|"}

HexDigits == <<"0", "1", "2", "3", "4", "5", "6", "7",
               "8", "9", "a", "b", "c", "d", "e", "f">>

\* the characters the model's names are written in, each with a code point
CharCodes == [c \in {"P", "Q", "F", "G", "M", "o", "d", "e", "l", "A", "B", "S",
                     "v", "1", "2", "3", " ", "_"} \cup BadChars |->
    CASE c = " " -> 32 [] c = "*" -> 42 [] c = "/" -> 47 [] c = "1" -> 49
      [] c = "2" -> 50 [] c = "3" -> 51 [] c = ":" -> 58 [] c = "<" -> 60
      [] c = ">" -> 62 [] c = "?" -> 63 [] c = "A" -> 65 [] c = "B" -> 66
      [] c = "F" -> 70 [] c = "G" -> 71 [] c = "M" -> 77 [] c = "P" -> 80
      [] c = "Q" -> 81 [] c = "S" -> 83 [] c = "\\" -> 92 [] c = "_" -> 95
      [] c = "d" -> 100 [] c = "e" -> 101 [] c = "l" -> 108 [] c = "o" -> 111
      [] c = "v" -> 118 [] c = "|" -> 124]

\* re.sub(r'[:\\/*?<>|]', ' ', name)
RECURSIVE ReSub(_)
ReSub(name) ==
    IF name = <<>> THEN <<>>
    ELSE <<IF Head(name) \in BadChars THEN " " ELSE Head(name)>> \o ReSub(Tail(name))

\* stands for hashlib.sha256(name.encode()).hexdigest()[:8]: 8 hexadecimal
\* digits computed from all the characters of the name (two 16-bit
\* polynomial digests in place of SHA-256)
RECURSIVE Digest(_, _, _)
Digest(name, h, mult) ==
    IF name = <<>> THEN h
    ELSE Digest(Tail(name), (h * mult + CharCodes[Head(name)]) % Pow(16, 4), mult)

Hash8(name) ==
    LET hi == Digest(name, 7, 31)
        lo == Digest(name, 11, 37)
    IN  [i \in 1..8 |->
            IF i <= 4 THEN HexDigits[((hi \div Pow(16, 4 - i)) % 16) + 1]
            ELSE HexDigits[((lo \div Pow(16, 8 - i)) % 16) + 1]]

\* a mutation of sanitize_filename: the hash suffix is left out
SanitizeWithoutHash(name) == ReSub(name)

sanitize_filename(name) ==
    LET with_replacement == ReSub(name)
    IN  IF name = with_replacement THEN name
        ELSE with_replacement \o <<"_">> \o Hash8(name)

-----------------------------------------------------------------------------
(* Format, Ctx and the output paths *)

\* class Format(Enum): the member names, in definition order
Formats == <<"F3D", "STEP", "STL", "IGES", "SAT", "SMT">>

\* Format.value
FormatValue(format) ==
    CASE format = "F3D" -> <<"f", "3", "d">>
      [] format = "STEP" -> <<"s", "t", "e", "p">>
      [] format = "STL" -> <<"s", "t", "l">>
      [] format = "IGES" -> <<"i", "g", "s">>
      [] format = "SAT" -> <<"s", "a", "t">>
      [] format = "SMT" -> <<"s", "m", "t">>

\* str(n) of a natural number
RECURSIVE Str(_)
Str(n) ==
    LET digit == <<HexDigits[(n % 10) + 1]>>
    IN  IF n < 10 THEN digit ELSE Str(n \div 10) \o digit

\* Ctx.extend: self._replace(folder=self.folder / other)
Extend(folder, other) == Append(folder, other)

\* a mutation of export_filename: the version number is left out of the name
ExportFilenameNoVersion(folder, format, file) ==
    LET sanitized == sanitize_filename(file.name)
    IN  folder \o <<sanitized, sanitized \o <<".">> \o FormatValue(format)>>

\* export_filename: ctx.folder / sanitized / '{sanitized}_v{versionNumber}.{format.value}'
export_filename(folder, format, file) ==
    LET sanitized == sanitize_filename(file.name)
        name == sanitized \o <<"_", "v">> \o Str(file.versionNumber)
                    \o <<".">> \o FormatValue(format)
    IN  folder \o <<sanitized, name>>

\* export_metadata: ctx.folder / sanitized / '{sanitized}_metadata.txt'
MetadataPath(folder, file) ==
    LET sanitized == sanitize_filename(file.name)
    IN  folder \o <<sanitized,
                    sanitized \o <<"_", "m", "e", "t", "a", "d", "a", "t", "a",
                                   ".", "t", "x", "t">>>>

\* a mutation of export_sketches: the folder is left out of the path
SketchPathFlat(folder, sketchName) ==
    <<sanitize_filename(sketchName) \o <<".", "d", "x", "f">>>>

\* export_sketches: ctx.folder / '{sanitize_filename(sketch.name)}.dxf'
SketchPath(folder, sketchName) ==
    Append(folder, sanitize_filename(sketchName) \o <<".", "d", "x", "f">>)

\* output_path.parent
Parent(path) == SubSeq(path, 1, Len(path) - 1)

\* the directories mkdir(exist_ok=True, parents=True) leaves in place
Prefixes(path) == {SubSeq(path, 1, n) : n \in 0..Len(path)}

\* Path.exists() in a file system with the directories d and the files f
ExistsIn(path, d, f) == path \in f \/ path \in d \/ path \in DOMAIN ledgers

\* Path.exists()
Exists(path) == ExistsIn(path, dirs, files)

-----------------------------------------------------------------------------
(* The data served by the Fusion API: the trees the walker is run on *)

Comp(name, sketches, occs) == [name |-> name, sketches |-> sketches, occs |-> occs]
Occ(name, comp) == [name |-> name, component |-> comp]
Folder(name, dataFiles, dataFolders) ==
    [name |-> name, dataFiles |-> dataFiles, dataFolders |-> dataFolders]
\* one version of a DataFile
Version(name, ext, n, root) ==
    [name |-> name, fileExtension |-> ext, versionNumber |-> n, rootComponent |-> root]

NameP == <<"P">>
NameQ == <<"Q">>
NameF == <<"F">>
NameG == <<"G">>
NameA == <<"A">>
NameB == <<"B">>
NameS == <<"S">>
NameModel == <<"M", "o", "d", "e", "l">>
NameSlash == <<"A", "/", "B">>

F3dExt == <<"f", "3", "d">>
DwgExt == <<"d", "w", "g">>

\* the root component of a design carries the document's name and version
RootName(name, n) == name \o <<" ", "v">> \o Str(n)

Plain(name, n) == Version(name, F3dExt, n, Comp(RootName(name, n), <<>>, <<>>))

\* a design with a sketch S in its root component and a sketch S in a sub-component
Sketched(name, n) ==
    Version(name, F3dExt, n,
            Comp(RootName(name, n), <<NameS>>,
                 <<Occ(<<"A", ":", "1">>, Comp(NameA, <<NameS>>, <<>>))>>))

\* P / F / Model v1, P / G / 'A/B' v1, and a project Q that is not selected
TreeSubs ==
    [projects |-> <<[name |-> NameP, rootFolder |-> 1], [name |-> NameQ, rootFolder |-> 4]>>,
     folders |-> <<Folder(NameP, <<>>, <<2, 3>>), Folder(NameF, <<1>>, <<>>),
                   Folder(NameG, <<2>>, <<>>), Folder(NameQ, <<3>>, <<>>)>>,
     dataFiles |-> << <<Plain(NameModel, 1)>>, <<Plain(NameSlash, 1)>>,
                      <<Plain(NameB, 1)>> >>]

\* P / F / Model v1 alone, with sketches
TreeSingle ==
    [projects |-> <<[name |-> NameP, rootFolder |-> 1]>>,
     folders |-> <<Folder(NameP, <<>>, <<2>>), Folder(NameF, <<1>>, <<>>)>>,
     dataFiles |-> << <<Sketched(NameModel, 1)>> >>]

\* a design with two versions next to a drawing with two versions
TreeVersions ==
    [projects |-> <<[name |-> NameP, rootFolder |-> 1]>>,
     folders |-> <<Folder(NameP, <<1, 2>>, <<>>)>>,
     dataFiles |-> << <<Plain(NameA, 1), Plain(NameA, 2)>>,
                      <<Version(NameB, DwgExt, 1, Comp(NameB, <<>>, <<>>)),
                        Version(NameB, DwgExt, 2, Comp(NameB, <<>>, <<>>))>> >>]

\* two designs of one folder that carry the same name and version number
TreeSameName ==
    [projects |-> <<[name |-> NameP, rootFolder |-> 1]>>,
     folders |-> <<Folder(NameP, <<1, 2>>, <<>>)>>,
     dataFiles |-> << <<Plain(NameModel, 1)>>, <<Plain(NameModel, 1)>> >>]

Trees == {"Subs", "Single", "Versions", "SameName"}

\* app.data: the projects, folders and files the Fusion API serves
Data ==
    CASE tree = "Subs" -> TreeSubs
      [] tree = "Single" -> TreeSingle
      [] tree = "Versions" -> TreeVersions
      [] tree = "SameName" -> TreeSameName

\* selected(listItems) keeps the order of Format
FormatLists == {<<>>, <<"F3D">>, <<"F3D", "STEP">>}

\* DataFile.versions.asArray()
Versions(f) == Data.dataFiles[f]

\* the file version a visit_file call with the handle id <<run, file, version>> is on
FileOf(id) == Versions(id[2])[id[3]]

\* the DataFile itself is its latest version
Latest(f) == Versions(f)[Len(Versions(f))]

-----------------------------------------------------------------------------
(* LazyDocument *)

\* LazyDocument.__init__: _document is None; the request counts are observations
NewDoc == [document |-> FALSE, activated |-> FALSE, unhidden |-> "no",
           openReqs |-> 0, opens |-> 0, closeReqs |-> 0]

\* the ways documents.open(), activate() and unhide_all_in_document() can end
OpenOutcomes(doc) ==
    IF doc.document \/ faults >= MaxFaults THEN {"ok"}
    ELSE {"ok", "open_raises", "activate_raises"}
            \cup (IF cfg.unhide_all THEN {"unhide_raises"} ELSE {})

\* LazyDocument.open: returns the handle and whether an exception left the call
DocOpen(doc, outcome) ==
    IF doc.document THEN [doc |-> doc, raised |-> FALSE]
    ELSE CASE outcome = "open_raises" ->
                [doc |-> [doc EXCEPT !.openReqs = @ + 1], raised |-> TRUE]
           [] outcome = "activate_raises" ->
                [doc |-> [doc EXCEPT !.document = TRUE, !.openReqs = @ + 1,
                                     !.opens = @ + 1],
                 raised |-> TRUE]
           [] outcome = "unhide_raises" ->
                [doc |-> [doc EXCEPT !.document = TRUE, !.activated = TRUE,
                                     !.unhidden = "part", !.openReqs = @ + 1,
                                     !.opens = @ + 1],
                 raised |-> TRUE]
           [] outcome = "ok" ->
                [doc |-> [doc EXCEPT !.document = TRUE, !.activated = TRUE,
                                     !.unhidden = IF cfg.unhide_all THEN "all" ELSE "no",
                                     !.openReqs = @ + 1, !.opens = @ + 1],
                 raised |-> FALSE]

\* the documents the application holds open after the handle of `id` went
\* from `before` to `after`
OpenedDocs(before, after, id) ==
    IF after.opens > before.opens THEN openDocs \cup {id} ELSE openDocs

-----------------------------------------------------------------------------
(* export_sketches *)

\* the units of work that are counted: one sketch of a file version, or one
\* format of a file version, with the output path it resolved to
SketchItem(id, key) ==
    [kind |-> "dxf", file |-> id[2], ver |-> id[3], fmt |-> "-",
     comp |-> key.comp, sk |-> key.sk, path |-> key.path]

FormatItem(id, format, path) ==
    [kind |-> "fmt", file |-> id[2], ver |-> id[3], fmt |-> format,
     comp |-> <<>>, sk |-> 0, path |-> path]

\* every sketch of a component and of its sub-components
RECURSIVE SketchKeys(_, _)
SketchKeys(component, compPath) ==
    {[comp |-> compPath, sk |-> i] : i \in 1..Len(component.sketches)}
        \cup UNION {SketchKeys(component.occs[j].component, Append(compPath, j)) :
                        j \in 1..Len(component.occs)}

\* export_sketches(ctx, component) on the file system acc; saveAsDXF raises
\* for the sketches in `failing`
RECURSIVE SketchLoop(_, _, _, _, _, _)
RECURSIVE OccLoop(_, _, _, _, _, _)
SketchLoop(folder, component, compPath, i, acc, failing) ==
    IF i > Len(component.sketches) THEN acc
    ELSE LET output_path == SketchPath(folder, component.sketches[i])
             key == [comp |-> compPath, sk |-> i]
             unit == [comp |-> compPath, sk |-> i, path |-> output_path]
             next ==
                IF ExistsIn(output_path, acc.dirs, acc.files)
                THEN [acc EXCEPT !.counter.skipped = @ + 1,
                                 !.skipped = @ \cup {unit}]
                ELSE IF key \in failing
                THEN [acc EXCEPT !.dirs = @ \cup Prefixes(Parent(output_path)),
                                 !.counter.errored = @ + 1,
                                 !.errored = @ \cup {unit}]
                ELSE [acc EXCEPT !.dirs = @ \cup Prefixes(Parent(output_path)),
                                 !.files = @ \cup {output_path},
                                 !.counter.saved = @ + 1,
                                 !.saved = @ \cup {unit}]
         IN  SketchLoop(folder, component, compPath, i + 1, next, failing)

OccLoop(folder, component, compPath, j, acc, failing) ==
    IF j > Len(component.occs) THEN acc
    ELSE LET occurrence == component.occs[j]
             sub == SketchLoop(Extend(folder, sanitize_filename(occurrence.name)),
                               occurrence.component, Append(compPath, j), 1, acc, failing)
             done == OccLoop(Extend(folder, sanitize_filename(occurrence.name)),
                             occurrence.component, Append(compPath, j), 1, sub, failing)
         IN  OccLoop(folder, component, compPath, j + 1, done, failing)

export_sketches(folder, component, failing) ==
    LET start == [dirs |-> dirs, files |-> files, counter |-> Zero,
                  saved |-> {}, skipped |-> {}, errored |-> {}]
        own == SketchLoop(folder, component, <<>>, 1, start, failing)
    IN  OccLoop(folder, component, <<>>, 1, own, failing)

-----------------------------------------------------------------------------
(* The walker: main, visit_folder, visit_file_wrapper, visit_file *)

\* runs: one record for each call of main that has ended; cur: the units
\* counted so far by the call of main under way; lastVisit, lastWrap: the last
\* call of visit_file and of visit_file_wrapper that has ended; recorded: the
\* <<ledger path, version>> pairs export_metadata has returned on
NoHist == [runs |-> <<>>, cur |-> NoFrame, lastVisit |-> NoFrame,
           lastWrap |-> NoFrame, recorded |-> {}]

NewRun == [k |-> "run", saved |-> {}, skipped |-> {}, errored |-> {},
           visited |-> {}, created |-> 0]

\* the record of a run that ended with `status`; depth: the number of
\* visit_folder calls under way when an exception ended it
EndRun(status, counter, depth) ==
    [k |-> "run", status |-> status, counter |-> counter, depth |-> depth,
     saved |-> hist.cur.saved, skipped |-> hist.cur.skipped,
     errored |-> hist.cur.errored, visited |-> hist.cur.visited,
     created |-> hist.cur.created, files |-> files, ledgers |-> ledgers]

Init ==
    /\ cfg \in [formats : FormatLists, projects : {{NameP}},
                unhide_all : BOOLEAN, save_sketches : BOOLEAN,
                save_all_versions : BOOLEAN]
    /\ tree \in Trees
    /\ dirs = {}
    /\ files = {}
    /\ ledgers = <<>>
    /\ openDocs = {}
    /\ pc = "idle"
    /\ run = 0
    /\ mainF = NoFrame
    /\ fstack = <<>>
    /\ wrap = NoFrame
    /\ visit = NoFrame
    /\ hist = NoHist
    /\ faults = 0
    /\ pin = <<>>
    /\ pout = [op |-> "none"]

Top == fstack[Len(fstack)]

\* visit_folder up to its first loop: the new frame, with new_ctx
FolderFrame(folder, id) ==
    [folder |-> id, ctx |-> Extend(folder, sanitize_filename(Data.folders[id].name)),
     fi |-> 1, si |-> 1, counter |-> Zero]

\* main: init_directory, init_logging, counter = Counter()
Main ==
    /\ pc \in {"idle", "returned", "aborted"}
    /\ run < MaxRuns
    /\ pc' = "running"
    /\ run' = run + 1
    /\ dirs' = dirs \cup {<<>>}
    /\ mainF' = [k |-> "main", i |-> 1, counter |-> Zero]
    /\ hist' = [hist EXCEPT !.cur = NewRun, !.lastVisit = NoFrame, !.lastWrap = NoFrame]
    /\ UNCHANGED <<cfg, tree, files, ledgers, openDocs, fstack, wrap, visit, faults,
                   pin, pout>>

\* an exception leaves visit_folder: no caller up to main catches it
AbortRun ==
    /\ pc' = "aborted"
    /\ fstack' = <<>>
    /\ mainF' = NoFrame
    /\ hist' = [hist EXCEPT !.runs = Append(@, EndRun("aborted", Zero, Len(fstack)))]

\* main's loop over dataProjects: a project that is not selected is passed
\* over, a selected one has its root folder visited; folder.dataFiles may raise
MainProject ==
    /\ pc = "running"
    /\ fstack = <<>>
    /\ mainF.i <= Len(Data.projects)
    /\ LET project == Data.projects[mainF.i]
       IN  IF project.name \notin cfg.projects
           THEN /\ mainF' = [mainF EXCEPT !.i = @ + 1]
                /\ UNCHANGED <<pc, fstack, hist, faults>>
           ELSE \/ /\ fstack' = <<FolderFrame(<<>>, project.rootFolder)>>
                   /\ UNCHANGED <<pc, mainF, hist, faults>>
                \/ /\ faults < MaxFaults
                   /\ faults' = faults + 1
                   /\ AbortRun
    /\ UNCHANGED <<cfg, tree, dirs, files, ledgers, openDocs, run, wrap, visit, pin, pout>>

\* main returns its counter
MainReturn ==
    /\ pc = "running"
    /\ fstack = <<>>
    /\ mainF.i > Len(Data.projects)
    /\ pc' = "returned"
    /\ hist' = [hist EXCEPT !.runs = Append(@, EndRun("returned", mainF.counter, 0))]
    /\ UNCHANGED <<cfg, tree, dirs, files, ledgers, openDocs, run, mainF, fstack, wrap,
                   visit, faults, pin, pout>>

\* visit_folder's loop over dataFiles: visit_file_wrapper is called on the
\* next file; with save_all_versions it will visit every version, else the
\* file itself
VisitFileWrapper ==
    /\ pc = "running"
    /\ fstack # <<>>
    /\ wrap = NoFrame
    /\ Top.fi <= Len(Data.folders[Top.folder].dataFiles)
    /\ LET f == Data.folders[Top.folder].dataFiles[Top.fi]
       IN  wrap' = [k |-> "wrapper", file |-> f,
                    todo |-> IF cfg.save_all_versions
                             THEN [i \in 1..Len(Versions(f)) |-> i]
                             ELSE <<Len(Versions(f))>>,
                    vi |-> 1, counter |-> Zero, openReqs |-> 0,
                    parts |-> <<>>, pre |-> <<dirs, files, ledgers>>]
    /\ UNCHANGED <<cfg, tree, dirs, files, ledgers, openDocs, pc, run, mainF, fstack,
                   visit, hist, faults, pin, pout>>

\* the step of visit_file that follows the sketches
AfterSketches == IF Len(cfg.formats) >= 1 THEN "formats" ELSE "metadata"

\* what exists for a file version when visit_file is entered (an observation)
Pre(folder, file) ==
    [exports |-> {format \in SeqToSet(cfg.formats) :
                    Exists(export_filename(folder, format, file))},
     ledger |-> Exists(MetadataPath(folder, file)),
     dir |-> Exists(Parent(MetadataPath(folder, file)))]

\* the observation of a visit_file call that has ended
VisitRecord(id, ctx, counter, doc, pre, faulted, raised) ==
    [k |-> "visit", id |-> id, ctx |-> ctx, counter |-> counter,
     doc |-> doc, pre |-> pre, faulted |-> faulted, raised |-> raised]

\* the observation of a visit_file_wrapper call that has ended: the counter it
\* returned (or held when the exception left it), the open requests made under
\* it, whether the output directory is as it was when the call began, the
\* versions it called visit_file on and the counters those calls returned
WrapRecord(counter, openReqs, raised) ==
    [k |-> "wrapper", file |-> wrap.file, counter |-> counter,
     openReqs |-> openReqs, raised |-> raised,
     untouched |-> (wrap.pre = <<dirs, files, ledgers>>),
     calls |-> SubSeq(wrap.todo, 1, IF raised THEN wrap.vi ELSE wrap.vi - 1),
     parts |-> wrap.parts]

\* visit_file returns `counter` to visit_file_wrapper, which adds it to its own
\* (or returns it as it is when save_all_versions is off)
ReturnToWrapper(counter, doc) ==
    wrap' = [wrap EXCEPT !.counter = CounterAdd(@, counter), !.vi = @ + 1,
                         !.openReqs = @ + doc.openReqs,
                         !.parts = Append(@, counter)]

\* an exception leaves visit_file: visit_file_wrapper does not catch it, the
\* except clause of visit_folder counts it and goes on with the next file
FolderCatch(frames) ==
    [frames EXCEPT ![Len(frames)].counter.errored = @ + 1,
                   ![Len(frames)].fi = @ + 1]

\* a mutation of visit_file: the test of the extension is missing
SupportedAny(file) == TRUE

\* visit_file goes past its first return for an f3d only
Supported(file) == file.fileExtension = F3dExt

\* visit_file_wrapper calls visit_file on the next version: a file that is
\* not an f3d is skipped at once, else the LazyDocument and the counter are made
VisitFile ==
    /\ pc = "running"
    /\ wrap.k = "wrapper"
    /\ visit.k = "none"
    /\ wrap.vi <= Len(wrap.todo)
    /\ LET v == wrap.todo[wrap.vi]
           file == Versions(wrap.file)[v]
           id == <<run, wrap.file, v>>
           seen == [hist EXCEPT !.cur.visited = @ \cup {<<wrap.file, v>>}]
       IN  IF ~Supported(file)
           THEN /\ ReturnToWrapper(Counter(0, 1, 0), NewDoc)
                /\ hist' = [seen EXCEPT !.lastVisit =
                              VisitRecord(id, Top.ctx, Counter(0, 1, 0), NewDoc,
                                          Pre(Top.ctx, file), FALSE, FALSE)]
                /\ UNCHANGED visit
           ELSE /\ visit' = [k |-> "visit", id |-> id,
                             step |-> IF cfg.save_sketches THEN "sketches"
                                      ELSE AfterSketches,
                             fi |-> 1, counter |-> Zero, doc |-> NewDoc,
                             pre |-> Pre(Top.ctx, file), faulted |-> FALSE]
                /\ hist' = seen
                /\ UNCHANGED wrap
    /\ UNCHANGED <<cfg, tree, dirs, files, ledgers, openDocs, pc, run, mainF, fstack,
                   faults, pin, pout>>

\* the exception of a step of visit_file leaves visit_file and
\* visit_file_wrapper and is caught in visit_folder
RaiseFromVisit(doc) ==
    /\ fstack' = FolderCatch(fstack)
    /\ wrap' = NoFrame
    /\ visit' = NoFrame
    /\ hist' = [hist EXCEPT
                  !.lastVisit = VisitRecord(visit.id, Top.ctx, visit.counter,
                                            doc, visit.pre, TRUE, TRUE),
                  !.lastWrap = WrapRecord(wrap.counter, wrap.openReqs + doc.openReqs,
                                          TRUE)]

\* visit_file, `if ctx.save_sketches`: doc.open(), then export_sketches on the
\* root component under ctx.extend(root component's name)
ExportSketches ==
    /\ pc = "running"
    /\ visit.k = "visit"
    /\ visit.step = "sketches"
    /\ \E outcome \in OpenOutcomes(visit.doc) :
         LET o == DocOpen(visit.doc, outcome)
             root == FileOf(visit.id).rootComponent
         IN  /\ openDocs' = OpenedDocs(visit.doc, o.doc, visit.id)
             /\ IF o.raised
                THEN /\ RaiseFromVisit(o.doc)
                     /\ faults' = faults + 1
                     /\ UNCHANGED <<dirs, files>>
                ELSE \E failing \in SUBSET SketchKeys(root, <<>>) :
                       LET r == export_sketches(
                                   Extend(Top.ctx, sanitize_filename(root.name)),
                                   root, failing)
                       IN  /\ {[comp |-> x.comp, sk |-> x.sk] : x \in r.errored} = failing
                           /\ faults + Cardinality(failing) <= MaxFaults
                           /\ faults' = faults + Cardinality(failing)
                           /\ dirs' = r.dirs
                           /\ files' = r.files
                           /\ visit' = [visit EXCEPT
                                 !.doc = o.doc,
                                 !.counter = CounterAdd(@, r.counter),
                                 !.step = AfterSketches,
                                 !.faulted = @ \/ failing # {}]
                           /\ hist' = [hist EXCEPT
                                 !.cur.saved = @ \cup
                                    {SketchItem(visit.id, x) : x \in r.saved},
                                 !.cur.skipped = @ \cup
                                    {SketchItem(visit.id, x) : x \in r.skipped},
                                 !.cur.errored = @ \cup
                                    {SketchItem(visit.id, x) : x \in r.errored},
                                 !.cur.created = @ + r.counter.saved]
                           /\ UNCHANGED <<fstack, wrap>>
    /\ UNCHANGED <<cfg, tree, ledgers, pc, run, mainF, pin, pout>>

\* the if/elif chain of export_file: the options of a known format, or an
\* exception for anything else
KnownFormat(format) == format \in {"F3D", "STL", "STEP", "IGES", "SAT", "SMT"}

\* a mutation of export_file: the check of output_path.exists() is missing
ExportNeededAlways(output_path) == TRUE

\* export_file goes past its first return when the output does not exist
ExportNeeded(output_path) == ~Exists(output_path)

\* a mutation of visit_file: the loop over ctx.formats ends after one turn
AfterFormatLeavesLoop(v) == [v EXCEPT !.fi = @ + 1, !.step = "metadata"]

\* visit_file's loop over ctx.formats goes on to the next format, and to
\* export_metadata after the last one
AfterFormat(v) ==
    [v EXCEPT !.fi = @ + 1,
              !.step = IF v.fi < Len(cfg.formats) THEN "formats" ELSE "metadata"]

\* one turn of visit_file's loop over ctx.formats: export_file, with any
\* exception counted as errored
ExportFile ==
    /\ pc = "running"
    /\ visit.k = "visit"
    /\ visit.step = "formats"
    /\ LET format == cfg.formats[visit.fi]
           output_path == export_filename(Top.ctx, format, FileOf(visit.id))
           item == FormatItem(visit.id, format, output_path)
           next == AfterFormat(visit)
       IN  IF ~ExportNeeded(output_path)
           THEN /\ visit' = [next EXCEPT !.counter.skipped = @ + 1]
                /\ hist' = [hist EXCEPT !.cur.skipped = @ \cup {item}]
                /\ UNCHANGED <<dirs, files, openDocs, faults>>
           ELSE \E outcome \in OpenOutcomes(visit.doc) :
                  LET o == DocOpen(visit.doc, outcome)
                  IN  /\ openDocs' = OpenedDocs(visit.doc, o.doc, visit.id)
                      /\ IF o.raised
                         THEN /\ visit' = [next EXCEPT !.counter.errored = @ + 1,
                                                       !.doc = o.doc,
                                                       !.faulted = TRUE]
                              /\ hist' = [hist EXCEPT !.cur.errored = @ \cup {item}]
                              /\ faults' = faults + 1
                              /\ UNCHANGED <<dirs, files>>
                         ELSE /\ dirs' = dirs \cup Prefixes(Parent(output_path))
                              /\ \/ /\ KnownFormat(format)
                                    /\ files' = files \cup {output_path}
                                    /\ visit' = [next EXCEPT !.counter.saved = @ + 1,
                                                             !.doc = o.doc]
                                    /\ hist' = [hist EXCEPT
                                                  !.cur.saved = @ \cup {item},
                                                  !.cur.created = @ + 1]
                                    /\ UNCHANGED faults
                                 \/ /\ KnownFormat(format) => faults < MaxFaults
                                    /\ faults' = IF KnownFormat(format) THEN faults + 1
                                                 ELSE faults
                                    /\ visit' = [next EXCEPT !.counter.errored = @ + 1,
                                                             !.doc = o.doc,
                                                             !.faulted = TRUE]
                                    /\ hist' = [hist EXCEPT
                                                  !.cur.errored = @ \cup {item}]
                                    /\ UNCHANGED files
    /\ UNCHANGED <<cfg, tree, ledgers, pc, run, mainF, fstack, wrap, pin, pout>>

\* f'Version: {file.versionNumber}'.strip() in lines_strip
Recorded(lines, n) == \E i \in 1..Len(lines) : lines[i] = [k |-> "Version", n |-> n]

\* the three lines export_metadata appends for a version
VersionBlock(n) ==
    <<[k |-> "Version", n |-> n], [k |-> "created", n |-> n],
      [k |-> "description", n |-> n]>>

\* a mutation of export_metadata: the block is appended without looking for
\* the version among the lines
AppendAlways(lines, n) == lines \o VersionBlock(n)

\* a mutation of export_metadata: the block is written over the ledger
\* (mode 'w' in place of 'a+')
AppendOverwrites(lines, n) == IF Recorded(lines, n) THEN lines ELSE VersionBlock(n)

\* export_metadata from its read of the lines on: the lines it leaves
AppendOnce(lines, n) == IF Recorded(lines, n) THEN lines ELSE lines \o VersionBlock(n)

\* a mutation of export_metadata: saved=1 whether or not the ledger was created
CreatedCounterAlways(created) == Counter(1, 0, 0)

\* a mutation of export_metadata: a version found recorded is counted as skipped
CreatedCounterOrSkipped(created) == IF created THEN Counter(1, 0, 0) ELSE Counter(0, 1, 0)

\* export_metadata: the counter it returns
CreatedCounter(created) == IF created THEN Counter(1, 0, 0) ELSE Zero

\* visit_file's call of export_metadata, with any exception counted as errored:
\* the ledger is created when it does not exist (open(..., 'w') raises when its
\* directory does not exist), and the version is appended unless it is recorded
ExportMetadata ==
    /\ pc = "running"
    /\ visit.k = "visit"
    /\ visit.step = "metadata"
    /\ LET output_path == MetadataPath(Top.ctx, FileOf(visit.id))
           n == FileOf(visit.id).versionNumber
           create == ~Exists(output_path)
           next == [visit EXCEPT !.step = "close"]
       IN  IF create /\ Parent(output_path) \notin dirs
           THEN /\ visit' = [next EXCEPT !.counter.errored = @ + 1]
                /\ UNCHANGED <<ledgers, hist, faults>>
           ELSE LET lines == IF create THEN <<>> ELSE ledgers[output_path]
                    made == IF create THEN 1 ELSE 0
                IN  \/ /\ ledgers' = [q \in DOMAIN ledgers \cup {output_path} |->
                                        IF q = output_path THEN AppendOnce(lines, n)
                                        ELSE ledgers[q]]
                       /\ visit' = [next EXCEPT
                                      !.counter = CounterAdd(@, CreatedCounter(create))]
                       /\ hist' = [hist EXCEPT !.cur.created = @ + made,
                                                !.recorded = @ \cup {<<output_path, n>>}]
                       /\ UNCHANGED faults
                    \/ /\ ~Recorded(lines, n)
                       /\ faults < MaxFaults
                       /\ faults' = faults + 1
                       /\ ledgers' = [q \in DOMAIN ledgers \cup {output_path} |->
                                        IF q = output_path THEN lines ELSE ledgers[q]]
                       /\ visit' = [next EXCEPT !.counter.errored = @ + 1,
                                                !.faulted = TRUE]
                       /\ hist' = [hist EXCEPT !.cur.created = @ + made]
    /\ UNCHANGED <<cfg, tree, dirs, files, openDocs, pc, run, mainF, fstack, wrap,
                   pin, pout>>

\* LazyDocument.close: the handle after the call (a request is made only if
\* _document is set)
DocClose(doc) == IF doc.document THEN [doc EXCEPT !.closeReqs = @ + 1] ELSE doc

\* the end of visit_file: doc.close() and return counter; an exception of
\* close leaves visit_file
Close ==
    /\ pc = "running"
    /\ visit.k = "visit"
    /\ visit.step = "close"
    /\ LET d == DocClose(visit.doc)
       IN  \/ /\ openDocs' = IF d.closeReqs > visit.doc.closeReqs
                             THEN openDocs \ {visit.id} ELSE openDocs
              /\ ReturnToWrapper(visit.counter, d)
              /\ visit' = NoFrame
              /\ hist' = [hist EXCEPT !.lastVisit =
                            VisitRecord(visit.id, Top.ctx, visit.counter, d,
                                        visit.pre, visit.faulted, FALSE)]
              /\ UNCHANGED <<fstack, faults>>
           \/ /\ d.closeReqs > visit.doc.closeReqs
              /\ faults < MaxFaults
              /\ faults' = faults + 1
              /\ RaiseFromVisit(d)
              /\ UNCHANGED openDocs
    /\ UNCHANGED <<cfg, tree, dirs, files, ledgers, pc, run, mainF, pin, pout>>

\* visit_file_wrapper returns and visit_folder adds its counter
WrapperReturn ==
    /\ pc = "running"
    /\ wrap.k = "wrapper"
    /\ visit.k = "none"
    /\ wrap.vi > Len(wrap.todo)
    /\ fstack' = [fstack EXCEPT ![Len(fstack)].counter = CounterAdd(@, wrap.counter),
                                ![Len(fstack)].fi = @ + 1]
    /\ wrap' = NoFrame
    /\ hist' = [hist EXCEPT !.lastWrap = WrapRecord(wrap.counter, wrap.openReqs, FALSE)]
    /\ UNCHANGED <<cfg, tree, dirs, files, ledgers, openDocs, pc, run, mainF, visit,
                   faults, pin, pout>>

\* visit_folder's loop over dataFolders: visit_folder is called on the next
\* sub-folder, outside any try; folder.dataFiles may raise
VisitFolderSub ==
    /\ pc = "running"
    /\ fstack # <<>>
    /\ wrap.k = "none"
    /\ Top.fi > Len(Data.folders[Top.folder].dataFiles)
    /\ Top.si <= Len(Data.folders[Top.folder].dataFolders)
    /\ \/ /\ fstack' = Append(fstack,
                FolderFrame(Top.ctx, Data.folders[Top.folder].dataFolders[Top.si]))
          /\ UNCHANGED <<pc, mainF, hist, faults>>
       \/ /\ faults < MaxFaults
          /\ faults' = faults + 1
          /\ AbortRun
    /\ UNCHANGED <<cfg, tree, dirs, files, ledgers, openDocs, run, wrap, visit, pin, pout>>

\* visit_folder returns and its caller (visit_folder or main) adds its counter
VisitFolderReturn ==
    /\ pc = "running"
    /\ fstack # <<>>
    /\ wrap.k = "none"
    /\ Top.fi > Len(Data.folders[Top.folder].dataFiles)
    /\ Top.si > Len(Data.folders[Top.folder].dataFolders)
    /\ IF Len(fstack) = 1
       THEN /\ fstack' = <<>>
            /\ mainF' = [mainF EXCEPT !.counter = CounterAdd(@, Top.counter),
                                      !.i = @ + 1]
       ELSE /\ fstack' = [SubSeq(fstack, 1, Len(fstack) - 1) EXCEPT
                            ![Len(fstack) - 1].counter = CounterAdd(@, Top.counter),
                            ![Len(fstack) - 1].si = @ + 1]
            /\ UNCHANGED mainF
    /\ UNCHANGED <<cfg, tree, dirs, files, ledgers, openDocs, pc, run, wrap, visit, hist,
                   faults, pin, pout>>

Next ==
    \/ Main
    \/ MainProject
    \/ MainReturn
    \/ VisitFileWrapper
    \/ VisitFile
    \/ ExportSketches
    \/ ExportFile
    \/ ExportMetadata
    \/ Close
    \/ WrapperReturn
    \/ VisitFolderSub
    \/ VisitFolderReturn

Spec == Init /\ [][Next]_vars

-----------------------------------------------------------------------------
(* The pure functions applied to inputs drawn from bounded sets *)

SanChars == {"A", " ", "/", ":", "_"}

SanNames == UNION {[1..n -> SanChars] : n \in 0..MaxNameLen}

CounterValues == [saved : 0..MaxCount, skipped : 0..MaxCount, errored : 0..MaxCount]

WalkIdle ==
    /\ cfg = [formats |-> <<>>, projects |-> {}, unhide_all |-> FALSE,
              save_sketches |-> FALSE, save_all_versions |-> FALSE]
    /\ tree = "Single"
    /\ dirs = {}
    /\ files = {}
    /\ ledgers = <<>>
    /\ openDocs = {}
    /\ pc = "idle"
    /\ run = MaxRuns
    /\ mainF = NoFrame
    /\ fstack = <<>>
    /\ wrap = NoFrame
    /\ visit = NoFrame
    /\ hist = NoHist
    /\ faults = 0

InitSanitize ==
    /\ WalkIdle
    /\ pin \in SanNames
    /\ pout = [op |-> "none"]

\* sanitize_filename(pin)
ApplySanitize ==
    /\ pout.op = "none"
    /\ pout' = [op |-> "sanitize", result |-> sanitize_filename(pin)]
    /\ UNCHANGED pin
    /\ UNCHANGED walkVars

SpecSanitize == InitSanitize /\ [][ApplySanitize]_vars

InitCounter ==
    /\ WalkIdle
    /\ pin \in [1..3 -> CounterValues]
    /\ pout = [op |-> "none"]

\* c = a + b on the objects i and j; the heap is left alone
ApplyAdd ==
    /\ pout.op = "none"
    /\ \E i, j \in 1..3 :
          pout' = [op |-> "add", i |-> i, j |-> j, before |-> pin,
                   result |-> CounterAdd(pin[i], pin[j])]
    /\ UNCHANGED pin
    /\ UNCHANGED walkVars

\* a += b on the objects i and j of the heap (a += a when i = j)
ApplyIAdd ==
    /\ pout.op = "none"
    /\ \E i, j \in 1..3 :
          /\ pin' = CounterIAdd(pin, i, j)
          /\ pout' = [op |-> "iadd", i |-> i, j |-> j, before |-> pin,
                      result |-> pin'[i]]
    /\ UNCHANGED walkVars

SpecCounter == InitCounter /\ [][ApplyAdd \/ ApplyIAdd]_vars

\* one LazyDocument on its own: pout holds the handle and the number of calls
\* made on it, pin the requests the application has received from it
InitHandle ==
    /\ cfg \in [formats : {<<>>}, projects : {{}}, unhide_all : BOOLEAN,
                save_sketches : {FALSE}, save_all_versions : {FALSE}]
    /\ tree = "Single"
    /\ dirs = {}
    /\ files = {}
    /\ ledgers = <<>>
    /\ openDocs = {}
    /\ pc = "idle"
    /\ run = MaxRuns
    /\ mainF = NoFrame
    /\ fstack = <<>>
    /\ wrap = NoFrame
    /\ visit = NoFrame
    /\ hist = NoHist
    /\ faults = 0
    /\ pin = <<>>
    /\ pout = [op |-> "handle", doc |-> NewDoc, calls |-> 0]

\* doc.open()
HandleOpen ==
    /\ pout.op = "handle"
    /\ pout.calls < MaxCalls
    /\ \E outcome \in OpenOutcomes(pout.doc) :
          LET o == DocOpen(pout.doc, outcome)
          IN  /\ pout' = [pout EXCEPT !.doc = o.doc, !.calls = @ + 1]
              /\ pin' = IF o.doc.openReqs > pout.doc.openReqs
                        THEN Append(pin, IF o.doc.opens > pout.doc.opens
                                         THEN "open" ELSE "open_failed")
                        ELSE pin
              /\ faults' = IF o.raised THEN faults + 1 ELSE faults
    /\ UNCHANGED <<cfg, tree, dirs, files, ledgers, openDocs, pc, run, mainF, fstack,
                   wrap, visit, hist>>

\* doc.close(); document.close(False) may raise
HandleClose ==
    /\ pout.op = "handle"
    /\ pout.calls < MaxCalls
    /\ LET d == DocClose(pout.doc)
       IN  /\ pout' = [pout EXCEPT !.doc = d, !.calls = @ + 1]
           /\ pin' = IF d.closeReqs > pout.doc.closeReqs THEN Append(pin, "close")
                     ELSE pin
           /\ \/ UNCHANGED faults
              \/ /\ d.closeReqs > pout.doc.closeReqs
                 /\ faults < MaxFaults
                 /\ faults' = faults + 1
    /\ UNCHANGED <<cfg, tree, dirs, files, ledgers, openDocs, pc, run, mainF, fstack,
                   wrap, visit, hist>>

SpecHandle == InitHandle /\ [][HandleOpen \/ HandleClose]_vars

-----------------------------------------------------------------------------
(* What the claims speak of *)

\* the folder that lists folder d among its dataFolders, if any
ParentFolders(d) == {q \in DOMAIN Data.folders : d \in SeqToSet(Data.folders[q].dataFolders)}

\* the names of the folders from the project's root folder down to folder d
RECURSIVE FolderChain(_)
FolderChain(d) ==
    IF ParentFolders(d) = {} THEN <<Data.folders[d].name>>
    ELSE FolderChain(CHOOSE q \in ParentFolders(d) : TRUE) \o <<Data.folders[d].name>>

\* the folders visit_folder is due to visit: those under a selected project
RECURSIVE Under(_)
Under(d) == {d} \cup UNION {Under(Data.folders[d].dataFolders[j]) :
                              j \in 1..Len(Data.folders[d].dataFolders)}

DueFolders ==
    UNION {Under(Data.projects[i].rootFolder) :
             i \in {j \in 1..Len(Data.projects) : Data.projects[j].name \in cfg.projects}}

\* the file versions the walk is due to visit
DueVersions ==
    UNION {UNION {{<<f, v>> : v \in IF cfg.save_all_versions
                                    THEN 1..Len(Data.dataFiles[f])
                                    ELSE {Len(Data.dataFiles[f])}} :
                    f \in SeqToSet(Data.folders[d].dataFiles)} :
             d \in DueFolders}

\* the directory <root>/<folder path>/<name>/ of a file of folder d
ExpectedDir(d, file) ==
    [i \in 1..Len(FolderChain(d)) |-> sanitize_filename(FolderChain(d)[i])]
        \o <<sanitize_filename(file.name)>>

\* <name>_v<version>.<ext>
ExpectedName(file, format) ==
    sanitize_filename(file.name) \o <<"_", "v">> \o Str(file.versionNumber)
        \o <<".">> \o FormatValue(format)

\* the folder that lists file f
FolderOf(f) ==
    CHOOSE d \in DueFolders : f \in SeqToSet(Data.folders[d].dataFiles)

Returned(r) == r \in DOMAIN hist.runs /\ hist.runs[r].status = "returned"

-----------------------------------------------------------------------------
(* C1 *)

\* C1 as stated: the second of two runs that returned has saved = 0, counts as
\* skipped every unit the first run saved, and leaves the export files, the
\* DXF files and the ledgers as the first run left them
RerunSavesNothing ==
    \A r \in DOMAIN hist.runs :
        (Returned(r) /\ Returned(r + 1)) =>
            /\ hist.runs[r + 1].counter.saved = 0
            /\ hist.runs[r].saved \subseteq hist.runs[r + 1].skipped
            /\ hist.runs[r + 1].files = hist.runs[r].files
            /\ hist.runs[r + 1].ledgers = hist.runs[r].ledgers

\* C1 as amended: of two runs of main in a row on the same tree and output
\* directory, the second never exports again a unit the first one saved or
\* skipped (where it reaches the unit it counts it as skipped) and removes no
\* output file; and if the first returned errored = 0, the second has
\* saved = 0 and leaves the export files, DXF files and ledgers as they were
RerunIdempotent ==
    \A r \in DOMAIN hist.runs :
        (r + 1) \in DOMAIN hist.runs =>
            LET first == hist.runs[r]
                second == hist.runs[r + 1]
            IN  /\ (first.saved \cup first.skipped)
                       \cap (second.saved \cup second.errored) = {}
                /\ first.files \subseteq second.files
                /\ (first.status = "returned" /\ first.counter.errored = 0) =>
                      /\ second.files = first.files
                      /\ second.ledgers = first.ledgers
                      /\ second.created = 0
                      /\ second.status = "returned" => second.counter.saved = 0
                /\ (first.status = "returned" /\ first.counter.errored = 0
                        /\ second.status = "returned" /\ second.counter.errored = 0) =>
                      first.saved \subseteq second.skipped

\* two runs in a row returned without an error, the first saved three units
\* or more and the second skipped them
RerunHappened ==
    /\ Returned(1) /\ Returned(2)
    /\ hist.runs[1].counter.errored = 0
    /\ hist.runs[1].counter.saved >= 3
    /\ hist.runs[2].counter.saved = 0
    /\ hist.runs[2].counter.skipped >= 3
    /\ cfg.save_sketches

-----------------------------------------------------------------------------
(* C2 *)

\* a first run that exported one f3d file version in two formats and created
\* its ledger, and a second run that returned
RerunScenario ==
    /\ Returned(1) /\ Returned(2)
    /\ Len(cfg.formats) = 2
    /\ ~cfg.save_sketches
    /\ Cardinality(hist.runs[1].visited) = 1
    /\ hist.runs[1].counter = Counter(3, 0, 0)

\* C2 as stated: the second run of the scenario returns saved=0, skipped=3,
\* errored=0
RerunCountsThreeSkipped == RerunScenario => hist.runs[2].counter = Counter(0, 3, 0)

\* C2 as amended: the second run of the scenario returns saved=0, skipped=2,
\* errored=0: the two format exports are skipped and the ledger step, finding
\* the version recorded, adds nothing to the counter
RerunCountsTwoSkipped == RerunScenario => hist.runs[2].counter = Counter(0, 2, 0)

\* the scenario was run twice
RerunScenarioHappened == RerunScenario /\ hist.runs[2].counter.skipped = 2

-----------------------------------------------------------------------------
(* C3 *)

\* the last visit_file call was of an f3d, began with none of its exports and
\* no ledger in place, and met no failure
FreshVisit ==
    /\ hist.lastVisit.k = "visit"
    /\ FileOf(hist.lastVisit.id).fileExtension = F3dExt
    /\ ~cfg.save_sketches /\ ~cfg.save_all_versions
    /\ Len(cfg.formats) >= 1
    /\ hist.lastVisit.pre.exports = {} /\ ~hist.lastVisit.pre.ledger
    /\ ~hist.lastVisit.faulted /\ ~hist.lastVisit.raised

\* C3: a visit of one f3d file version that starts with nothing of it exported,
\* without sketches, all versions or failures, and with k >= 1 formats, leaves
\* exactly the k files <name>_v<version>.<ext> and the ledger
\* <name>_metadata.txt with a 'Version: <version>' line in
\* <root>/<folder path>/<name>/ and returns saved = k + 1, skipped = 0,
\* errored = 0
FreshRunAccounting ==
    FreshVisit =>
        LET v == hist.lastVisit
            dir == ExpectedDir(FolderOf(v.id[2]), FileOf(v.id))
            expected == {Append(dir, ExpectedName(FileOf(v.id), cfg.formats[i])) :
                            i \in 1..Len(cfg.formats)}
            ledger == Append(dir, sanitize_filename(FileOf(v.id).name)
                                    \o <<"_", "m", "e", "t", "a", "d", "a", "t", "a",
                                         ".", "t", "x", "t">>)
        IN  /\ v.counter = Counter(Len(cfg.formats) + 1, 0, 0)
            /\ Cardinality(expected) = Len(cfg.formats)
            /\ {q \in files : Parent(q) = dir} = expected
            /\ {q \in DOMAIN ledgers : Parent(q) = dir} = {ledger}
            /\ Recorded(ledgers[ledger], FileOf(v.id).versionNumber)

\* the two-format scenario: Model v1 exported to P/F/Model with saved = 3
FreshRunHappened ==
    /\ FreshVisit
    /\ FileOf(hist.lastVisit.id).name = NameModel
    /\ hist.lastVisit.ctx = <<NameP, NameF>>
    /\ hist.lastVisit.counter = Counter(3, 0, 0)
    /\ <<NameP, NameF, NameModel,
         <<"M", "o", "d", "e", "l", "_", "v", "1", ".", "s", "t", "e", "p">>>> \in files

-----------------------------------------------------------------------------
(* C4 *)

\* C4 as stated: no exception below the root folder ends the run, and a run
\* that returns has visited every file version it was due to visit, whatever
\* was raised on the way
FailureIsolation ==
    \A r \in DOMAIN hist.runs :
        /\ hist.runs[r].status = "aborted" => hist.runs[r].depth = 0
        /\ hist.runs[r].status = "returned" => hist.runs[r].visited = DueVersions

\* C4 as stated, for the versions of one file alone: a run that returns has
\* visited every version of every file it has visited a version of
VersionIsolation ==
    \A r \in DOMAIN hist.runs :
        hist.runs[r].status = "returned" =>
            \A x \in hist.runs[r].visited :
                \A y \in DueVersions : y[1] = x[1] => y \in hist.runs[r].visited

-----------------------------------------------------------------------------
(* C5 *)

\* C5 as stated: outside a call of visit_file no document that a call opened
\* is still open, and no handle is asked to close more than once
CloseOnAllExitPaths ==
    /\ visit.k = "none" => openDocs = {}
    /\ hist.lastVisit.k = "visit" => hist.lastVisit.doc.closeReqs <= 1

-----------------------------------------------------------------------------
(* C6 *)

\* the output of the format visit_file is about to export
CurrentOutput == export_filename(Top.ctx, cfg.formats[visit.fi], FileOf(visit.id))

\* C6: export_file on an output that exists counts skipped(1) and leaves the
\* handle and the open documents alone; a visit_file call without sketches
\* that finds every requested output in place makes no open and no close
\* request
SkipWithoutOpen ==
    /\ [](/\ (visit.k = "visit" /\ ~cfg.save_sketches
                 /\ visit.pre.exports = SeqToSet(cfg.formats)) =>
                visit.doc = NewDoc
          /\ (hist.lastVisit.k = "visit" /\ ~cfg.save_sketches
                 /\ FileOf(hist.lastVisit.id).fileExtension = F3dExt
                 /\ hist.lastVisit.pre.exports = SeqToSet(cfg.formats)) =>
                /\ hist.lastVisit.doc = NewDoc
                /\ hist.lastVisit.counter.skipped = Len(cfg.formats)
                /\ hist.lastVisit.counter.saved <= 1)
    /\ [][(visit.k = "visit" /\ visit.step = "formats" /\ Exists(CurrentOutput)) =>
            /\ visit'.k = "visit"
            /\ visit'.doc = visit.doc
            /\ visit'.counter = [visit.counter EXCEPT !.skipped = @ + 1]
            /\ openDocs' = openDocs /\ files' = files]_vars

\* a visit of the second run found both outputs in place and returned
SkippedBoth ==
    /\ run = 2
    /\ hist.lastVisit.k = "visit"
    /\ ~cfg.save_sketches /\ Len(cfg.formats) = 2
    /\ hist.lastVisit.pre.exports = SeqToSet(cfg.formats)
    /\ hist.lastVisit.counter = Counter(0, 2, 0)

-----------------------------------------------------------------------------
(* C7 *)

\* the last visit_file_wrapper call was on a file that is not an f3d
UnsupportedDone ==
    /\ hist.lastWrap.k = "wrapper"
    /\ Latest(hist.lastWrap.file).fileExtension # F3dExt

\* C7 as stated: a file that is not an f3d yields skipped=1, saved=0,
\* errored=0, whatever the flags and formats, creates nothing and opens nothing
UnsupportedCountsOnce ==
    UnsupportedDone =>
        /\ hist.lastWrap.counter = Counter(0, 1, 0)
        /\ ~hist.lastWrap.raised
        /\ hist.lastWrap.untouched
        /\ hist.lastWrap.openReqs = 0

\* C7 as amended: a file that is not an f3d yields skipped=1 for each of its
\* versions that is visited (one when save_all_versions is off, every version
\* when it is on), saved=0, errored=0, creates nothing and opens nothing
UnsupportedCountsPerVersion ==
    UnsupportedDone =>
        /\ hist.lastWrap.counter =
              Counter(0, IF cfg.save_all_versions
                         THEN Len(Data.dataFiles[hist.lastWrap.file]) ELSE 1, 0)
        /\ ~hist.lastWrap.raised
        /\ hist.lastWrap.untouched
        /\ hist.lastWrap.openReqs = 0

\* a drawing with two versions was passed over with all versions asked for
UnsupportedTwoVersions ==
    /\ UnsupportedDone
    /\ cfg.save_all_versions /\ cfg.save_sketches /\ Len(cfg.formats) = 2
    /\ hist.lastWrap.counter = Counter(0, 2, 0)

-----------------------------------------------------------------------------
(* C8 *)

\* C8 as stated: a unit counted as errored in a run has no file at its output
\* path when the run ends, and the next run does not count it as skipped
FailedItemsRetried ==
    \A r \in DOMAIN hist.runs :
        \A x \in hist.runs[r].errored :
            /\ x.path \notin hist.runs[r].files
            /\ (r + 1) \in DOMAIN hist.runs => x \notin hist.runs[r + 1].skipped

-----------------------------------------------------------------------------
(* C9 *)

\* C9: + has Counter() as identity, is commutative and associative and returns
\* the pointwise sum leaving its operands alone; a += b leaves a equal to
\* a + b and every other Counter as it was
CounterMonoid ==
    /\ \A i \in 1..3 : CounterAdd(pin[i], Zero) = pin[i] /\ CounterAdd(Zero, pin[i]) = pin[i]
    /\ \A i, j \in 1..3 : CounterAdd(pin[i], pin[j]) = CounterAdd(pin[j], pin[i])
    /\ CounterAdd(CounterAdd(pin[1], pin[2]), pin[3])
          = CounterAdd(pin[1], CounterAdd(pin[2], pin[3]))
    /\ pout.op = "add" =>
          /\ pin = pout.before
          /\ pout.result = [saved |-> pin[pout.i].saved + pin[pout.j].saved,
                            skipped |-> pin[pout.i].skipped + pin[pout.j].skipped,
                            errored |-> pin[pout.i].errored + pin[pout.j].errored]
    /\ pout.op = "iadd" =>
          /\ pin[pout.i] = CounterAdd(pout.before[pout.i], pout.before[pout.j])
          /\ \A q \in 1..3 : q # pout.i => pin[q] = pout.before[q]

\* a += b was applied to two different counters with no zero field
CounterAccumulated ==
    /\ pout.op = "iadd"
    /\ pout.i # pout.j
    /\ pout.before[pout.i] = Counter(1, 1, 1)
    /\ pout.before[pout.j] = Counter(1, 1, 1)
    /\ pin[pout.i] = Counter(2, 2, 2)

-----------------------------------------------------------------------------
(* C10 *)

HasBadChar(name) == \E i \in 1..Len(name) : name[i] \in BadChars

\* C10: a name without forbidden characters is returned as it is; a name with
\* one comes back changed, free of forbidden characters: each forbidden
\* character replaced by a space, then '_' and 8 hexadecimal digits that are
\* the digest of the original name
SanitizerContract ==
    pout.op = "sanitize" =>
        LET x == pin
            y == pout.result
        IN  IF ~HasBadChar(x) THEN y = x
            ELSE /\ y # x
                 /\ ~HasBadChar(y)
                 /\ Len(y) = Len(x) + 9
                 /\ \A i \in 1..Len(x) :
                        y[i] = IF x[i] \in BadChars THEN " " ELSE x[i]
                 /\ y[Len(x) + 1] = "_"
                 /\ \A i \in 1..8 : y[Len(x) + 1 + i] \in SeqToSet(HexDigits)
                 /\ SubSeq(y, Len(x) + 2, Len(x) + 9) = Hash8(x)

\* a name with two forbidden characters was sanitized
SanitizedBadName ==
    /\ pout.op = "sanitize"
    /\ pin = <<"A", "/", ":">>
    /\ SubSeq(pout.result, 1, 4) = <<"A", " ", " ", "_">>

-----------------------------------------------------------------------------
(* C11 *)

\* the merge of a sequence of Counters
RECURSIVE Merged(_)
Merged(parts) ==
    IF parts = <<>> THEN [saved |-> 0, skipped |-> 0, errored |-> 0]
    ELSE LET rest == Merged(Tail(parts))
         IN  [saved |-> Head(parts).saved + rest.saved,
              skipped |-> Head(parts).skipped + rest.skipped,
              errored |-> Head(parts).errored + rest.errored]

\* what C11 says of one visit_file_wrapper call w: visit_file was called once
\* on every version in order (on the current version alone without
\* save_all_versions), the versions resolve to different output paths, and
\* the counter it returns is the merge of the counters of those calls
ExpandedVersions(w) ==
    LET n == Len(Versions(w.file))
    IN  /\ w.calls = IF cfg.save_all_versions THEN [i \in 1..n |-> i] ELSE <<n>>
        /\ ~w.raised => (Len(w.parts) = Len(w.calls) /\ w.counter = Merged(w.parts))
        /\ \A i, j \in 1..n : \A format \in SeqToSet(Formats) :
               i # j => export_filename(<<>>, format, Versions(w.file)[i])
                          # export_filename(<<>>, format, Versions(w.file)[j])

\* C11 as stated: every visit_file_wrapper call, however it ended, has called
\* visit_file exactly once on every version of the file when save_all_versions
\* is set, and once on the current version when it is not, and its counter is
\* the merge of the counters of those calls
VersionExpansion ==
    hist.lastWrap.k = "wrapper" => ExpandedVersions(hist.lastWrap)

\* the same of the visit_file_wrapper calls that returned
VersionExpansionOnReturn ==
    (hist.lastWrap.k = "wrapper" /\ ~hist.lastWrap.raised) =>
        ExpandedVersions(hist.lastWrap)

\* both versions of a design were visited and exported by one call
BothVersionsExported ==
    /\ hist.lastWrap.k = "wrapper" /\ ~hist.lastWrap.raised
    /\ cfg.save_all_versions
    /\ hist.lastWrap.calls = <<1, 2>>
    /\ hist.lastWrap.parts = <<Counter(2, 0, 0), Counter(1, 0, 0)>>

-----------------------------------------------------------------------------
(* C12 *)

\* the lines a are the first lines of b
IsPrefix(a, b) == Len(a) <= Len(b) /\ SubSeq(b, 1, Len(a)) = a

\* the ledger export_metadata is working on
CurrentLedger == MetadataPath(Top.ctx, FileOf(visit.id))

\* C12: a ledger never holds two 'Version: n' lines for one n, holds one for
\* every version export_metadata has returned on without an exception, in
\* this run or an earlier one, and no step removes a ledger or changes the
\* lines it held: the old lines stay the first lines of the new ones
LedgerAppendOnly ==
    /\ [](/\ \A q \in DOMAIN ledgers :
                \A i, j \in 1..Len(ledgers[q]) :
                    (ledgers[q][i].k = "Version" /\ ledgers[q][i] = ledgers[q][j]) => i = j
          /\ \A x \in hist.recorded :
                /\ x[1] \in DOMAIN ledgers
                /\ \E i \in 1..Len(ledgers[x[1]]) :
                      ledgers[x[1]][i] = [k |-> "Version", n |-> x[2]])
    /\ [][/\ \A q \in DOMAIN ledgers :
                q \in DOMAIN ledgers' /\ IsPrefix(ledgers[q], ledgers'[q])
          /\ (visit.k = "visit" /\ visit.step = "metadata"
                  /\ visit'.counter.errored = visit.counter.errored) =>
                <<CurrentLedger, FileOf(visit.id).versionNumber>> \in hist'.recorded]_vars

\* the second run went back to a ledger that held both versions of a design
\* and left it with its six lines
LedgerRevisited ==
    /\ hist.lastVisit.k = "visit" /\ ~hist.lastVisit.raised
    /\ hist.lastVisit.id[1] = 2 /\ hist.lastVisit.id[3] = 2
    /\ hist.lastVisit.pre.ledger
    /\ Cardinality(hist.recorded) = 2
    /\ \E q \in DOMAIN ledgers :
          ledgers[q] = <<[k |-> "Version", n |-> 1], [k |-> "created", n |-> 1],
                         [k |-> "description", n |-> 1],
                         [k |-> "Version", n |-> 2], [k |-> "created", n |-> 2],
                         [k |-> "description", n |-> 2]>>

-----------------------------------------------------------------------------
(* C13 *)

\* C13: a call of export_metadata that returns adds saved=1 to the counter of
\* visit_file if it created the ledger and nothing if the ledger was there,
\* whether it appended the version or found it recorded; a call that raises is
\* counted as errored=1 and nothing else
LedgerAccounting ==
    [][(visit.k = "visit" /\ visit.step = "metadata") =>
          LET created == CurrentLedger \notin DOMAIN ledgers
                            /\ CurrentLedger \in DOMAIN ledgers'
              before == visit.counter
              after == visit'.counter
          IN  IF after.errored = before.errored
              THEN /\ after.saved = before.saved + (IF created THEN 1 ELSE 0)
                   /\ after.skipped = before.skipped
                   /\ CurrentLedger \in DOMAIN ledgers'
              ELSE after = [before EXCEPT !.errored = @ + 1]]_vars

\* version 2 of a design was appended to the ledger version 1 had created, and
\* the visit of version 2 counted its one export and nothing for the ledger
AppendedUncounted ==
    /\ run = 1
    /\ hist.lastVisit.k = "visit" /\ ~hist.lastVisit.raised
    /\ hist.lastVisit.id[3] = 2
    /\ hist.lastVisit.pre.ledger /\ hist.lastVisit.pre.exports = {}
    /\ cfg.formats = <<"F3D">> /\ ~cfg.save_sketches
    /\ hist.lastVisit.counter = Counter(1, 0, 0)
    /\ \E q \in DOMAIN ledgers : Len(ledgers[q]) = 6

-----------------------------------------------------------------------------
(* C14 *)

\* C14 as stated: whatever the output directory holds, a call of
\* export_metadata for a file version whose ledger does not exist, with no
\* failure of the write, creates the ledger and counts saved=1
LedgerAlwaysCreated ==
    [][(visit.k = "visit" /\ visit.step = "metadata" /\ ~Exists(CurrentLedger)
           /\ faults' = faults) =>
          /\ CurrentLedger \in DOMAIN ledgers'
          /\ visit'.counter = [visit.counter EXCEPT !.saved = @ + 1]]_vars

-----------------------------------------------------------------------------
(* C15 *)

\* C15 as stated: whatever open() and close() calls are made on one handle,
\* the application receives at most one open request that succeeds and at most
\* one close request, no close request before an open one, and no open request
\* after a close one
HandleLifeCycle ==
    pout.op = "handle" =>
        /\ pout.doc.opens <= 1
        /\ pout.doc.closeReqs <= 1
        /\ pin # <<>> => pin[1] # "close"
        /\ \A i, j \in 1..Len(pin) :
               (i < j /\ pin[i] = "close") => pin[j] = "close"

\* the same without the bound on the close requests
HandleOpensOnce ==
    pout.op = "handle" =>
        /\ pout.doc.opens <= 1
        /\ pin # <<>> => pin[1] # "close"
        /\ \A i, j \in 1..Len(pin) :
               (i < j /\ pin[i] = "close") => pin[j] = "close"

-----------------------------------------------------------------------------
(* C16 *)

\* the unit of format i of the file version the handle id is on, under folder
FormatUnit(id, folder, i) ==
    [kind |-> "fmt", file |-> id[2], ver |-> id[3], fmt |-> cfg.formats[i],
     comp |-> <<>>, sk |-> 0,
     path |-> folder \o <<sanitize_filename(FileOf(id).name),
                           sanitize_filename(FileOf(id).name) \o <<"_", "v">>
                             \o Str(FileOf(id).versionNumber) \o <<".">>
                             \o FormatValue(cfg.formats[i])>>]

\* in how many of saved, skipped and errored the run under way has counted x
TimesCounted(x) ==
    (IF x \in hist.cur.saved THEN 1 ELSE 0) + (IF x \in hist.cur.skipped THEN 1 ELSE 0)
        + (IF x \in hist.cur.errored THEN 1 ELSE 0)

Total(c) == c.saved + c.skipped + c.errored

\* C16 as stated: every visit_file call on an f3d that has ended, however it
\* ended, has counted every requested format in exactly one of saved, skipped
\* and errored
EveryFormatAttempted ==
    (hist.lastVisit.k = "visit"
        /\ FileOf(hist.lastVisit.id).fileExtension = <<"f", "3", "d">>) =>
        \A i \in 1..Len(cfg.formats) :
            TimesCounted(FormatUnit(hist.lastVisit.id, hist.lastVisit.ctx, i)) = 1

\* C16 as amended: a visit_file call on an f3d that gets to its loop over the
\* formats (save_sketches unset, or the open for the sketches did not raise)
\* attempts every requested format once and in order: turn i counts format i
\* as one unit of exactly one of saved, skipped and errored, whatever that
\* turn or an earlier one raised, and goes on to the next format; after the
\* loop every format is counted once
FormatsAttemptedInOrder ==
    /\ [](visit.k = "visit" =>
             \A i \in 1..Len(cfg.formats) :
                 TimesCounted(FormatUnit(visit.id, Top.ctx, i)) =
                     IF \/ visit.step \in {"metadata", "close"}
                        \/ (visit.step = "formats" /\ i < visit.fi)
                     THEN 1 ELSE 0)
    /\ []((hist.lastVisit.k = "visit" /\ ~hist.lastVisit.raised
              /\ FileOf(hist.lastVisit.id).fileExtension = <<"f", "3", "d">>) =>
             \A i \in 1..Len(cfg.formats) :
                 TimesCounted(FormatUnit(hist.lastVisit.id, hist.lastVisit.ctx, i)) = 1)
    /\ [][(visit.k = "visit" /\ visit.step = "formats") =>
             LET x == FormatUnit(visit.id, Top.ctx, visit.fi)
             IN  /\ visit'.k = "visit"
                 /\ visit'.fi = visit.fi + 1
                 /\ visit'.step = IF visit.fi < Len(cfg.formats) THEN "formats"
                                  ELSE "metadata"
                 /\ Total(visit'.counter) = Total(visit.counter) + 1
                 /\ visit'.counter.saved >= visit.counter.saved
                 /\ visit'.counter.skipped >= visit.counter.skipped
                 /\ visit'.counter.errored >= visit.counter.errored
                 /\ (visit'.counter.saved > visit.counter.saved) = (x \in hist'.cur.saved)
                 /\ (visit'.counter.skipped > visit.counter.skipped)
                        = (x \in hist'.cur.skipped)
                 /\ (visit'.counter.errored > visit.counter.errored)
                        = (x \in hist'.cur.errored)
                 /\ hist'.cur.saved \cup hist'.cur.skipped \cup hist'.cur.errored
                        = hist.cur.saved \cup hist.cur.skipped \cup hist.cur.errored
                            \cup {x}]_vars

\* the open for the first of two formats raised, and the second was exported
SecondFormatAfterFailure ==
    /\ hist.lastVisit.k = "visit" /\ ~hist.lastVisit.raised
    /\ ~cfg.save_sketches /\ Len(cfg.formats) = 2
    /\ hist.lastVisit.doc.openReqs = 2 /\ hist.lastVisit.doc.opens = 1
    /\ FormatUnit(hist.lastVisit.id, hist.lastVisit.ctx, 1) \in hist.cur.errored
    /\ FormatUnit(hist.lastVisit.id, hist.lastVisit.ctx, 2) \in hist.cur.saved
    /\ hist.lastVisit.counter = Counter(2, 0, 1)

-----------------------------------------------------------------------------
(* C17 *)

\* C17: a call of export_sketches (the open before it did not raise) counts
\* every sketch of the root component and of its sub-components as one unit
\* of exactly one of saved, skipped and errored: skipped if its .dxf was
\* there, with no file written; saved if it was not and is there after the
\* call; errored if saveAsDXF raised, with no file written; the counter grows
\* by just those units and visit_file goes on, whatever was raised
SketchAccounting ==
    [][(visit.k = "visit" /\ visit.step = "sketches" /\ visit'.k = "visit") =>
          LET mine(S) == {x \in S : x.kind = "dxf" /\ x.file = visit.id[2]
                                       /\ x.ver = visit.id[3]}
              keys(S) == {[comp |-> x.comp, sk |-> x.sk] : x \in S}
              sv == mine(hist'.cur.saved)
              sk == mine(hist'.cur.skipped)
              er == mine(hist'.cur.errored)
              all == SketchKeys(FileOf(visit.id).rootComponent, <<>>)
          IN  /\ mine(hist.cur.saved \cup hist.cur.skipped \cup hist.cur.errored) = {}
              /\ keys(sv) \cup keys(sk) \cup keys(er) = all
              /\ Cardinality(sv) + Cardinality(sk) + Cardinality(er) = Cardinality(all)
              /\ visit'.counter.saved = visit.counter.saved + Cardinality(sv)
              /\ visit'.counter.skipped = visit.counter.skipped + Cardinality(sk)
              /\ visit'.counter.errored = visit.counter.errored + Cardinality(er)
              /\ \A x \in sk : x.path \in files
              /\ \A x \in sv : x.path \notin files /\ x.path \in files'
              /\ \A x \in er : x.path \notin files /\ x.path \notin files'
              /\ files' = files \cup {x.path : x \in sv}
              /\ visit'.step # "sketches"]_vars

\* saveAsDXF raised for the sketch of the root component in both runs; the
\* sketch of the sub-component was saved by the first run and skipped by the
\* second
SketchAfterFailure ==
    /\ run = 2 /\ Len(hist.runs) = 1
    /\ visit.k = "visit" /\ visit.step # "sketches"
    /\ \E x \in hist.runs[1].errored : x.kind = "dxf" /\ x.comp = <<>>
    /\ \E x \in hist.runs[1].saved : x.kind = "dxf" /\ x.comp = <<1>>
    /\ \E x \in hist.cur.errored : x.kind = "dxf" /\ x.comp = <<>>
    /\ \E x \in hist.cur.skipped : x.kind = "dxf" /\ x.comp = <<1>>
    /\ visit.counter = Counter(0, 1, 1)

-----------------------------------------------------------------------------
(* C18 *)

\* C18 as stated: with unhide_all set, a step of visit_file writes an export
\* file or a DXF file only on a handle whose document has had every component
\* unhidden
UnhideBeforeExport ==
    [][(cfg.unhide_all /\ visit.k = "visit" /\ files' # files) =>
          (visit'.k = "visit" /\ visit'.doc.unhidden = "all")]_vars

-----------------------------------------------------------------------------
(* C19 *)

\* C19 as stated: when main returns, the saved field of its Counter is the
\* number of export files, DXF files and ledgers the run created
SavedCountExact ==
    \A r \in DOMAIN hist.runs :
        hist.runs[r].status = "returned" =>
            hist.runs[r].counter.saved = hist.runs[r].created

-----------------------------------------------------------------------------
(* C20 *)

\* C20 as stated: in a first run, on an empty output directory, with no
\* capability failure so far, every format of a file version the walk has
\* reached is counted as saved and none as skipped
NoSourceShadowed ==
    (run = 1 /\ faults = 0 /\ hist.cur.k = "run") =>
        /\ \A x \in hist.cur.skipped : x.kind # "fmt"
        /\ \A x \in hist.cur.errored : x.kind # "fmt"

=============================================================================
